---- MODULE Spec2Model ----
(***************************************************************************)
(* The two-lock bounded queue of src/src/deque.rs (InnerQueue / Queue).    *)
(*                                                                         *)
(* Every thread owns a clone of one Queue handle and issues enq / deq      *)
(* calls.  A call is split into one step per access to shared state (a     *)
(* lock, a slot, the atomic counter, the condition variable), so that the  *)
(* states between the steps of concurrent calls are states of the model.   *)
(*                                                                         *)
(* with_capacity keeps `(&mut data).as_mut_ptr()` of a local Vec that is    *)
(* dropped when the constructor returns, so the ring storage is released   *)
(* memory from the first call on.  What such memory holds is not decided   *)
(* by the queue: ReuseStorage is the allocator handing it to another owner *)
(* that writes it.  SpecIntact is the sub-behaviour of the same program in *)
(* which the released memory happens never to be written by anyone else.   *)
(***************************************************************************)
EXTENDS Integers, Sequences, FiniteSets

\* ---------------------------------------------------------------- bounds
NThreads == 3
MaxCapacity == 2
MaxVal == 2
MaxCalls == 4
MaxReuse == 1

Threads == 1..NThreads
Values == 1..MaxVal

\* Option<T>: None, or Some(v) written as v.
NoneV == 0
\* A payload no enq call ever offered (what foreign data in a slot reads as).
Garbage == MaxVal + 1
SlotValues == {NoneV} \cup Values \cup {Garbage}
\* What a slot reads as once a foreign owner has written the memory: its
\* discriminant word is 0 (None) or not (Some of foreign data).
ForeignValues == {NoneV, Garbage}

\* No thread holds the mutex.
Free == 0

VARIABLES
    capacity,      \* InnerQueue.capacity
    data,          \* the memory InnerQueue.data points to: slot index -> Option
    released,      \* that memory has been given back to the allocator
    size,          \* InnerQueue.size (AtomicUsize)
    enq_owner,     \* thread holding enq_lock, or Free
    enq_idx,       \* the isize inside enq_lock: write cursor
    enq_poisoned,  \* enq_lock was held by a thread that panicked
    deq_owner,     \* thread holding deq_lock, or Free
    deq_idx,       \* the isize inside deq_lock: read cursor
    deq_poisoned,  \* deq_lock was held by a thread that panicked
    pc,            \* per thread: where it is in its current call
    elem,          \* per thread: enq's argument / the value deq took
    must_wake,     \* per thread: enq's local must_wake_dequeuers
    hist,          \* calls that returned, in order of return
    senders_joined,\* the threads that enqueue have all run to their end
    reuses,        \* writes by foreign owners of the released storage so far
    empty_call,    \* per thread, for its deq in flight: "no", or issued on an
                   \* empty queue and no enq has made a value available since
                   \* ("empty"), or one has ("served")
    model          \* the values stored by enq and not yet taken by deq, oldest
                   \* first: the VecDeque the tests compare the queue against

vars == <<capacity, data, released, size, enq_owner, enq_idx, enq_poisoned,
          deq_owner, deq_idx, deq_poisoned, pc, elem, must_wake, hist, senders_joined, reuses, empty_call,
          model>>

queue == <<capacity, data, released, size, enq_owner, enq_idx, enq_poisoned,
           deq_owner, deq_idx, deq_poisoned>>

\* ------------------------------------------------------------- helpers
InEnq == {"enq_lock", "enq_check", "enq_store", "enq_inc", "enq_wake_lock",
          "enq_notify", "enq_ret"}
InDeq == {"deq_lock", "deq_loop", "deq_wait", "deq_relock", "deq_take", "deq_dec"}

\* Calls issued so far: returned, in flight, or ended by a panic.
Issued == Len(hist) + Cardinality({t \in Threads : pc[t] # "idle"})

\* Option::is_some
IsSome(x) == x # NoneV

\* Nothing is stored and nothing is counted.
QueueEmpty == size = 0 /\ \A i \in 0..(capacity - 1) : data[i] = NoneV

\* *guard += 1; *guard %= self.capacity
Advance(i) == (i + 1) % capacity

\* AtomicUsize::fetch_add(1) / fetch_sub(1): the new value.  The counter is
\* 64 bits wide and the model issues at most MaxCalls calls, so fetch_add never
\* wraps; fetch_sub on 0 would wrap to usize::MAX and shows here as -1.
FetchAdd(n) == n + 1
FetchSub(n) == n - 1

\* A returned call: enq(v) with r "Ok" or "Full"; deq returning v, with r "Val",
\* or "ValEmpty" when the call was issued on an empty queue.
Event(t, op, v, r) == [t |-> t, op |-> op, v |-> v, r |-> r]

\* --------------------------------------------------------------- Init
\* Queue::with_capacity(n) has returned: n slots of None, both cursors 0,
\* size 0, both locks free; the Vec that owned the slots is already dropped.
Init ==
    /\ capacity \in 1..MaxCapacity
    /\ data = [i \in 0..(capacity - 1) |-> NoneV]
    /\ released = TRUE
    /\ size = 0
    /\ enq_owner = Free /\ enq_idx = 0 /\ enq_poisoned = FALSE
    /\ deq_owner = Free /\ deq_idx = 0 /\ deq_poisoned = FALSE
    /\ pc = [t \in Threads |-> "idle"]
    /\ elem = [t \in Threads |-> NoneV]
    /\ must_wake = [t \in Threads |-> FALSE]
    /\ hist = <<>>
    /\ senders_joined = FALSE
    /\ reuses = 0
    /\ empty_call = [t \in Threads |-> "no"]
    /\ model = <<>>

\* ---------------------------------------------------------------- enq
\* Queue::enq -> InnerQueue::enq(elem); let mut must_wake_dequeuers = false
EnqCall(t, v) ==
    /\ pc[t] = "idle"
    /\ ~senders_joined
    /\ Issued < MaxCalls
    /\ pc' = [pc EXCEPT ![t] = "enq_lock"]
    /\ elem' = [elem EXCEPT ![t] = v]
    /\ must_wake' = [must_wake EXCEPT ![t] = FALSE]
    /\ UNCHANGED <<queue, hist, senders_joined, reuses, empty_call>>
    /\ UNCHANGED model

\* self.enq_lock.lock().expect("enq guard poisoned")
EnqLock(t) ==
    /\ pc[t] = "enq_lock"
    /\ enq_owner = Free
    /\ IF enq_poisoned
          THEN /\ pc' = [pc EXCEPT ![t] = "enq_panicked"]
               /\ UNCHANGED enq_owner
          ELSE /\ pc' = [pc EXCEPT ![t] = "enq_check"]
               /\ enq_owner' = t
    /\ UNCHANGED <<capacity, data, released, size, enq_idx, enq_poisoned,
                   deq_owner, deq_idx, deq_poisoned, elem, must_wake, hist, senders_joined, reuses, empty_call>>
    /\ UNCHANGED model

\* EnqCheck with the test inverted (is_none for is_some): an Occupied slot is
\* taken for a free one and a free one is reported Full.
EnqCheckInverted(t) ==
    /\ pc[t] = "enq_check"
    /\ IF ~IsSome(data[enq_idx])
          THEN /\ pc' = [pc EXCEPT ![t] = "idle"]
               /\ enq_owner' = Free
               /\ hist' = Append(hist, Event(t, "enq", elem[t], "Full"))
               /\ elem' = [elem EXCEPT ![t] = NoneV]
          ELSE /\ pc' = [pc EXCEPT ![t] = "enq_store"]
               /\ UNCHANGED <<enq_owner, hist, elem>>
    /\ UNCHANGED <<capacity, data, released, size, enq_idx, enq_poisoned,
                   deq_owner, deq_idx, deq_poisoned, must_wake, senders_joined, reuses, empty_call>>
    /\ UNCHANGED model

\* if ptr.is_some() { return Err(Error::WouldBlock) }  (the guard is dropped)
EnqCheck(t) ==
    /\ pc[t] = "enq_check"
    /\ IF IsSome(data[enq_idx])
          THEN /\ pc' = [pc EXCEPT ![t] = "idle"]
               /\ enq_owner' = Free
               /\ hist' = Append(hist, Event(t, "enq", elem[t], "Full"))
               /\ elem' = [elem EXCEPT ![t] = NoneV]
          ELSE /\ pc' = [pc EXCEPT ![t] = "enq_store"]
               /\ UNCHANGED <<enq_owner, hist, elem>>
    /\ UNCHANGED <<capacity, data, released, size, enq_idx, enq_poisoned,
                   deq_owner, deq_idx, deq_poisoned, must_wake, senders_joined, reuses, empty_call>>
    /\ UNCHANGED model

\* assert!(mem::replace(ptr, Some(elem)).is_none()); *guard += 1; *guard %= capacity
\* A failed assert unwinds with the guard held: the lock is released poisoned.
EnqStore(t) ==
    /\ pc[t] = "enq_store"
    /\ data' = [data EXCEPT ![enq_idx] = elem[t]]
    /\ IF IsSome(data[enq_idx])
          THEN /\ pc' = [pc EXCEPT ![t] = "enq_panicked"]
               /\ enq_owner' = Free
               /\ enq_poisoned' = TRUE
               /\ UNCHANGED <<enq_idx, model>>
          ELSE /\ pc' = [pc EXCEPT ![t] = "enq_inc"]
               /\ enq_idx' = Advance(enq_idx)
               /\ model' = Append(model, elem[t])
               /\ UNCHANGED <<enq_owner, enq_poisoned>>
    /\ UNCHANGED <<capacity, released, size, deq_owner, deq_idx, deq_poisoned,
                   elem, must_wake, hist, senders_joined, reuses, empty_call>>

\* if self.size.fetch_add(1, Relaxed) == 0 { must_wake_dequeuers = true }; drop(guard)
EnqInc(t) ==
    /\ pc[t] = "enq_inc"
    /\ size' = FetchAdd(size)
    /\ must_wake' = [must_wake EXCEPT ![t] = (size = 0)]
    /\ enq_owner' = Free
    /\ pc' = [pc EXCEPT ![t] = IF size = 0 THEN "enq_wake_lock" ELSE "enq_ret"]
    /\ empty_call' = [u \in Threads |->
                        IF empty_call[u] = "empty" THEN "served" ELSE empty_call[u]]
    /\ UNCHANGED <<capacity, data, released, enq_idx, enq_poisoned,
                   deq_owner, deq_idx, deq_poisoned, elem, hist, senders_joined, reuses>>
    /\ UNCHANGED model

\* if must_wake_dequeuers { let guard = self.deq_lock.lock().expect(..)
EnqWakeLock(t) ==
    /\ pc[t] = "enq_wake_lock"
    /\ deq_owner = Free
    /\ IF deq_poisoned
          THEN /\ pc' = [pc EXCEPT ![t] = "enq_panicked"]
               /\ UNCHANGED deq_owner
          ELSE /\ pc' = [pc EXCEPT ![t] = "enq_notify"]
               /\ deq_owner' = t
    /\ UNCHANGED <<capacity, data, released, size, enq_owner, enq_idx, enq_poisoned,
                   deq_idx, deq_poisoned, elem, must_wake, hist, senders_joined, reuses, empty_call>>
    /\ UNCHANGED model

\* EnqNotify with notify_one in place of notify_all: one suspended consumer,
\* if there is any, is woken and the others stay suspended.
EnqNotifyOne(t) ==
    /\ pc[t] = "enq_notify"
    /\ IF \E u \in Threads : pc[u] = "deq_wait"
          THEN \E u \in Threads :
                  /\ pc[u] = "deq_wait"
                  /\ pc' = [pc EXCEPT ![t] = "enq_ret", ![u] = "deq_relock"]
          ELSE pc' = [pc EXCEPT ![t] = "enq_ret"]
    /\ deq_owner' = Free
    /\ UNCHANGED <<capacity, data, released, size, enq_owner, enq_idx, enq_poisoned,
                   deq_idx, deq_poisoned, elem, must_wake, hist, senders_joined, reuses, empty_call>>
    /\ UNCHANGED model

\* self.not_empty.notify_all(); drop(guard)
EnqNotify(t) ==
    /\ pc[t] = "enq_notify"
    /\ pc' = [u \in Threads |->
                IF u = t THEN "enq_ret"
                ELSE IF pc[u] = "deq_wait" THEN "deq_relock" ELSE pc[u]]
    /\ deq_owner' = Free
    /\ UNCHANGED <<capacity, data, released, size, enq_owner, enq_idx, enq_poisoned,
                   deq_idx, deq_poisoned, elem, must_wake, hist, senders_joined, reuses, empty_call>>
    /\ UNCHANGED model

\* return Ok(())
EnqRet(t) ==
    /\ pc[t] = "enq_ret"
    /\ pc' = [pc EXCEPT ![t] = "idle"]
    /\ hist' = Append(hist, Event(t, "enq", elem[t], "Ok"))
    /\ elem' = [elem EXCEPT ![t] = NoneV]
    /\ must_wake' = [must_wake EXCEPT ![t] = FALSE]
    /\ UNCHANGED <<queue, senders_joined, reuses, empty_call>>
    /\ UNCHANGED model

\* ---------------------------------------------------------------- deq
\* Queue::deq -> InnerQueue::deq()
DeqCall(t) ==
    /\ pc[t] = "idle"
    /\ Issued < MaxCalls
    /\ pc' = [pc EXCEPT ![t] = "deq_lock"]
    /\ elem' = [elem EXCEPT ![t] = NoneV]
    /\ empty_call' = [empty_call EXCEPT ![t] = IF QueueEmpty THEN "empty" ELSE "no"]
    /\ UNCHANGED <<queue, must_wake, hist, senders_joined, reuses>>
    /\ UNCHANGED model

\* let mut guard = self.deq_lock.lock().expect("deq guard poisoned")
DeqLock(t) ==
    /\ pc[t] = "deq_lock"
    /\ deq_owner = Free
    /\ IF deq_poisoned
          THEN /\ pc' = [pc EXCEPT ![t] = "deq_panicked"]
               /\ UNCHANGED deq_owner
          ELSE /\ pc' = [pc EXCEPT ![t] = "deq_loop"]
               /\ deq_owner' = t
    /\ UNCHANGED <<capacity, data, released, size, enq_owner, enq_idx, enq_poisoned,
                   deq_idx, deq_poisoned, elem, must_wake, hist, senders_joined, reuses, empty_call>>
    /\ UNCHANGED model

\* while self.size.load(Relaxed) == 0 { guard = self.not_empty.wait(guard)...
\* wait releases deq_lock and suspends the thread in one step.
DeqLoop(t) ==
    /\ pc[t] = "deq_loop"
    /\ IF size = 0
          THEN /\ pc' = [pc EXCEPT ![t] = "deq_wait"]
               /\ deq_owner' = Free
          ELSE /\ pc' = [pc EXCEPT ![t] = "deq_take"]
               /\ UNCHANGED deq_owner
    /\ UNCHANGED <<capacity, data, released, size, enq_owner, enq_idx, enq_poisoned,
                   deq_idx, deq_poisoned, elem, must_wake, hist, senders_joined, reuses, empty_call>>
    /\ UNCHANGED model

\* Condvar::wait may return without a notification.
SpuriousWake(t) ==
    /\ pc[t] = "deq_wait"
    /\ pc' = [pc EXCEPT ![t] = "deq_relock"]
    /\ UNCHANGED <<queue, elem, must_wake, hist, senders_joined, reuses, empty_call>>
    /\ UNCHANGED model

\* DeqRelock with `if` in place of `while` at line 80: the woken thread takes
\* deq_lock again and goes on to the slot without reading size again.
DeqRelockNoRecheck(t) ==
    /\ pc[t] = "deq_relock"
    /\ deq_owner = Free
    /\ IF deq_poisoned
          THEN /\ pc' = [pc EXCEPT ![t] = "deq_panicked"]
               /\ UNCHANGED deq_owner
          ELSE /\ pc' = [pc EXCEPT ![t] = "deq_take"]
               /\ deq_owner' = t
    /\ UNCHANGED <<capacity, data, released, size, enq_owner, enq_idx, enq_poisoned,
                   deq_idx, deq_poisoned, elem, must_wake, hist, senders_joined, reuses, empty_call>>
    /\ UNCHANGED model

\* ...wait(guard).unwrap(): the woken thread takes deq_lock again.
DeqRelock(t) ==
    /\ pc[t] = "deq_relock"
    /\ deq_owner = Free
    /\ IF deq_poisoned
          THEN /\ pc' = [pc EXCEPT ![t] = "deq_panicked"]
               /\ UNCHANGED deq_owner
          ELSE /\ pc' = [pc EXCEPT ![t] = "deq_loop"]
               /\ deq_owner' = t
    /\ UNCHANGED <<capacity, data, released, size, enq_owner, enq_idx, enq_poisoned,
                   deq_idx, deq_poisoned, elem, must_wake, hist, senders_joined, reuses, empty_call>>
    /\ UNCHANGED model

\* match mem::replace(ptr, None) { Some(elem) => { *guard += 1; *guard %= capacity; ..
\*                                 None => unreachable!() }
DeqTake(t) ==
    /\ pc[t] = "deq_take"
    /\ data' = [data EXCEPT ![deq_idx] = NoneV]
    /\ IF IsSome(data[deq_idx])
          THEN /\ pc' = [pc EXCEPT ![t] = "deq_dec"]
               /\ elem' = [elem EXCEPT ![t] = data[deq_idx]]
               /\ deq_idx' = Advance(deq_idx)
               /\ model' = IF model = <<>> THEN model ELSE Tail(model)
               /\ UNCHANGED <<deq_owner, deq_poisoned>>
          ELSE /\ pc' = [pc EXCEPT ![t] = "deq_panicked"]
               /\ deq_owner' = Free
               /\ deq_poisoned' = TRUE
               /\ UNCHANGED <<elem, deq_idx, model>>
    /\ UNCHANGED <<capacity, released, size, enq_owner, enq_idx, enq_poisoned,
                   must_wake, hist, senders_joined, reuses, empty_call>>

\* self.size.fetch_sub(1, Relaxed); return elem   (the guard is dropped)
DeqDec(t) ==
    /\ pc[t] = "deq_dec"
    /\ size' = FetchSub(size)
    /\ deq_owner' = Free
    /\ pc' = [pc EXCEPT ![t] = "idle"]
    /\ hist' = Append(hist, Event(t, "deq", elem[t],
                                   IF empty_call[t] = "no" THEN "Val" ELSE "ValEmpty"))
    /\ elem' = [elem EXCEPT ![t] = NoneV]
    /\ empty_call' = [empty_call EXCEPT ![t] = "no"]
    /\ UNCHANGED <<capacity, data, released, enq_owner, enq_idx, enq_poisoned,
                   deq_idx, deq_poisoned, must_wake, senders_joined, reuses>>
    /\ UNCHANGED model

\* ------------------------------------------------------- environment
\* test::model_check: `for jh in snd_jh { .. jh.join() .. }` has returned, every
\* sender thread has run to its end: no enq call is issued from here on.
JoinSenders ==
    /\ ~senders_joined
    /\ \A t \in Threads : pc[t] \notin InEnq
    /\ senders_joined' = TRUE
    /\ UNCHANGED <<queue, pc, elem, must_wake, hist, reuses, empty_call>>
    /\ UNCHANGED model

\* The released storage belongs to the allocator: whoever gets it next writes
\* it, at any time, without taking either lock.
ReuseStorage(i, x) ==
    /\ released
    /\ reuses < MaxReuse
    /\ data[i] # x
    /\ data' = [data EXCEPT ![i] = x]
    /\ reuses' = reuses + 1
    /\ UNCHANGED <<capacity, released, size, enq_owner, enq_idx, enq_poisoned,
                   deq_owner, deq_idx, deq_poisoned, pc, elem, must_wake, hist, senders_joined,
                   empty_call>>
    /\ UNCHANGED model

Reuse == \E i \in 0..(capacity - 1), x \in ForeignValues : ReuseStorage(i, x)

\* ------------------------------------------------------ specifications
EnqStep(t) ==
    \/ \E v \in Values : EnqCall(t, v)
    \/ EnqLock(t)
    \/ EnqCheck(t)
    \/ EnqStore(t)
    \/ EnqInc(t)
    \/ EnqWakeLock(t)
    \/ EnqNotify(t)
    \/ EnqRet(t)

DeqStep(t) ==
    \/ DeqCall(t)
    \/ DeqLock(t)
    \/ DeqLoop(t)
    \/ SpuriousWake(t)
    \/ DeqRelock(t)
    \/ DeqTake(t)
    \/ DeqDec(t)

NextIntact ==
    \/ \E t \in Threads : EnqStep(t) \/ DeqStep(t)
    \/ JoinSenders

Next ==
    \/ \E t \in Threads : EnqStep(t) \/ DeqStep(t)
    \/ JoinSenders
    \/ Reuse

Spec == Init /\ [][Next]_vars

\* The same program when nobody else ever writes the released storage.
SpecIntact == Init /\ [][NextIntact]_vars

\* ---------------------------------------------------- reading the history
RECURSIVE CountIn(_, _)
\* How many entries of the sequence s equal x.
CountIn(s, x) ==
    IF s = <<>> THEN 0
    ELSE (IF Head(s) = x THEN 1 ELSE 0) + CountIn(Tail(s), x)

RECURSIVE ValuesOf(_)
ValuesOf(s) == IF s = <<>> THEN <<>> ELSE <<Head(s).v>> \o ValuesOf(Tail(s))

IsOkEnq(e) == e.op = "enq" /\ e.r = "Ok"
IsDeq(e) == e.op = "deq"

\* Values whose enq returned Ok / values deq returned, in order of return.
Queued == ValuesOf(SelectSeq(hist, IsOkEnq))
Collected == ValuesOf(SelectSeq(hist, IsDeq))

\* An enq past its store has been accepted: it goes on to return Ok.
Accepting == {"enq_inc", "enq_wake_lock", "enq_notify", "enq_ret"}
AcceptedInFlight(v) == Cardinality({t \in Threads : pc[t] \in Accepting /\ elem[t] = v})

\* A deq past its take holds a value it goes on to return.
TakenInFlight(v) == Cardinality({t \in Threads : pc[t] = "deq_dec" /\ elem[t] = v})

EnqThreads == {t \in Threads : pc[t] \in InEnq \cup {"enq_panicked"}}
                 \cup {hist[k].t : k \in {j \in 1..Len(hist) : hist[j].op = "enq"}}
DeqThreads == {t \in Threads : pc[t] \in InDeq \cup {"deq_panicked"}}
                 \cup {hist[k].t : k \in {j \in 1..Len(hist) : hist[j].op = "deq"}}

AllIdle == \A t \in Threads : pc[t] = "idle"
AllOccupied == \A i \in 0..(capacity - 1) : IsSome(data[i])

IsPrefix(a, b) == Len(a) <= Len(b) /\ \A k \in 1..Len(a) : a[k] = b[k]

\* ------------------------------------------------------------- claims
\* C1: no accepted value is lost and none is returned twice.  At every moment
\* each value has been returned by deq at most as often as an enq of it was
\* accepted (returned Ok, or stored its value and is on its way to return Ok);
\* once every call has returned and the queue is empty, the values returned
\* by deq and the values whose enq returned Ok are the same multiset.
NoLossNoDup ==
    /\ \A v \in SlotValues \ {NoneV} :
          CountIn(Collected, v) + TakenInFlight(v)
             <= CountIn(Queued, v) + AcceptedInFlight(v)
    /\ (AllIdle /\ size = 0) =>
          \A v \in SlotValues \ {NoneV} : CountIn(Collected, v) = CountIn(Queued, v)

\* C2: with one producer thread and one consumer thread, the values deq
\* returns are, in order, the values whose enq was accepted, in the order of
\* those enq calls.
SpscFifo ==
    (/\ Cardinality(EnqThreads) <= 1
     /\ Cardinality(DeqThreads) <= 1
     /\ EnqThreads \cap DeqThreads = {})
    => \E inflight \in {<<>>} \cup {<<elem[t]>> : t \in {u \in Threads : pc[u] \in Accepting}} :
          IsPrefix(Collected, Queued \o inflight)

\* C3: in every reachable state the occupancy counter is in [0, capacity].
SizeInRange == size \in 0..capacity

RejectsWhenFilled ==
    [][\A t \in Threads :
          (/\ pc[t] \in {"enq_lock", "enq_check"}
           /\ pc'[t] # pc[t]
           /\ \A u \in Threads \ {t} : pc[u] = "idle"
           /\ DeqThreads = {}
           /\ Len(Queued) = capacity)
          => IF pc[t] = "enq_lock"
                THEN pc'[t] = "enq_check"
                ELSE /\ pc'[t] = "idle"
                     /\ hist' = Append(hist, Event(t, "enq", elem[t], "Full"))
                     /\ data' = data /\ size' = size
                     /\ enq_idx' = enq_idx /\ deq_idx' = deq_idx
                     /\ deq_owner' = deq_owner
                     /\ \A u \in Threads \ {t} : pc'[u] = pc[u]]_vars
RECURSIVE DeqCountUpTo(_, _)
\* How many of the first k returned calls are a deq that returned v.
DeqCountUpTo(k, v) ==
    IF k = 0 THEN 0
    ELSE (IF hist[k].op = "deq" /\ hist[k].v = v THEN 1 ELSE 0) + DeqCountUpTo(k - 1, v)

\* C6: a deq issued on an empty queue does not return before an enq has made
\* a value available (stored it and counted it), and the value it returns was
\* offered by an accepted enq and is not returned more often than accepted.
BlocksWhileEmpty ==
    /\ [][\A t \in Threads :
             (pc[t] = "deq_dec" /\ pc'[t] = "idle") => empty_call[t] # "empty"]_vars
    /\ [](\A k \in 1..Len(hist) :
             (hist[k].op = "deq" /\ hist[k].r = "ValEmpty")
                => DeqCountUpTo(k, hist[k].v)
                      <= CountIn(Queued, hist[k].v) + AcceptedInFlight(hist[k].v))

\* The reference FIFO list after the calls of h, started from ref.
RECURSIVE RefContent(_, _)
RefContent(h, ref) ==
    IF h = <<>> THEN ref
    ELSE IF Head(h).op = "enq"
            THEN RefContent(Tail(h), IF Len(ref) < capacity
                                        THEN Append(ref, Head(h).v) ELSE ref)
            ELSE RefContent(Tail(h), IF ref = <<>> THEN ref ELSE Tail(ref))

\* Every call of h answered as the reference answers it (a deq on an empty
\* reference is not part of the comparison).
RECURSIVE RefMatches(_, _)
RefMatches(h, ref) ==
    IF h = <<>> THEN TRUE
    ELSE IF Head(h).op = "enq"
            THEN IF Len(ref) < capacity
                    THEN Head(h).r = "Ok" /\ RefMatches(Tail(h), Append(ref, Head(h).v))
                    ELSE Head(h).r = "Full" /\ RefMatches(Tail(h), ref)
            ELSE IF ref = <<>>
                    THEN TRUE
                    ELSE Head(h).v = Head(ref) /\ RefMatches(Tail(h), Tail(ref))

\* C7: while a single thread issues all the calls, every returned call is
\* answered as the reference FIFO list answers it, no call aborts, and a deq
\* issued on a non-empty reference does not suspend.
SequentialModel ==
    \A t \in Threads :
       (/\ \A u \in Threads \ {t} : pc[u] = "idle"
        /\ EnqThreads \cup DeqThreads \subseteq {t})
       => /\ RefMatches(hist, <<>>)
          /\ pc[t] # "enq_panicked"
          /\ pc[t] \in {"deq_panicked", "deq_wait"} => RefContent(hist, <<>>) = <<>>

EnqCalls == SelectSeq(hist, LAMBDA e : e.op = "enq")
Offers(v) == CountIn(ValuesOf(EnqCalls), v)
                + Cardinality({t \in Threads : pc[t] \in InEnq /\ elem[t] = v})

\* test::model_check: several sender threads that only enq, each value offered
\* once and never offered again, one receiver thread c that only deq and calls
\* it at most once per value offered.
FanIn(c) ==
    /\ DeqThreads \subseteq {c}
    /\ c \notin EnqThreads
    /\ Cardinality(EnqThreads) >= 2
    /\ \A v \in Values : Offers(v) <= 1
    /\ Len(Collected) + (IF pc[c] \in InDeq THEN 1 ELSE 0) <= Len(EnqCalls)

\* C8: in the fan-in scenario with capacity below the number of values
\* offered, once the senders are through, the receiver is not left suspended
\* on an empty queue with values still to collect, and when it has collected
\* as many values as were offered it holds every offered value exactly once.
FanInCollectsAll ==
    \A c \in Threads :
       (/\ FanIn(c)
        /\ senders_joined
        /\ \A t \in Threads : pc[t] \notin {"enq_panicked", "deq_panicked"}
        /\ capacity < Len(EnqCalls))
       => /\ ~(pc[c] = "deq_wait" /\ size = 0 /\ Len(Collected) < Len(EnqCalls))
          /\ Len(Collected) = Len(EnqCalls)
                => \A v \in Values : CountIn(Collected, v) = Offers(v)

\* C9: no enq call ends without returning Ok or Full, and a lock is only ever
\* held by a thread at a step that needs nothing from another thread, so an
\* enq waiting for a lock gets it.
EnqNeverBlocks ==
    /\ \A t \in Threads : pc[t] # "enq_panicked"
    /\ enq_owner # Free => pc[enq_owner] \in {"enq_check", "enq_store", "enq_inc"}
    /\ deq_owner # Free => pc[deq_owner] \in {"deq_loop", "deq_take", "deq_dec", "enq_notify"}

DeqIssued == Len(Collected)
                + Cardinality({t \in Threads : pc[t] \in InDeq \cup {"deq_panicked"}})

\* C10: no wakeup is lost.  A consumer is suspended on the condition with a
\* non-zero counter only while the enq that made it non-zero still has its
\* broadcast to send; and while at least as many enq calls have returned Ok
\* as deq calls were issued, no deq call aborts, and none is left suspended
\* once no enq is in flight.
NoLostWakeup ==
    /\ (size > 0 /\ \E t \in Threads : pc[t] = "deq_wait")
          => \E u \in Threads : pc[u] \in {"enq_wake_lock", "enq_notify"}
    /\ Len(Queued) >= DeqIssued
          => /\ \A t \in Threads : pc[t] # "deq_panicked"
             /\ (\A u \in Threads : pc[u] \notin InEnq)
                   => \A t \in Threads : pc[t] # "deq_wait"

\* The steps of enq and deq that dereference self.data.offset(idx).
Touching == {"enq_check", "enq_store", "deq_take"}

\* C11: the ring storage is allocated whenever enq or deq reads or writes a
\* slot: no thread is at a step that dereferences the slot pointer while the
\* memory it points to has been released.
StorageStaysAllocated == \A t \in Threads : pc[t] \in Touching => ~released

\* C12: no slot is accessed by two threads at once.  In no state is a thread
\* that holds the producer lock about to inspect or write the slot at the
\* write cursor while a thread that holds the consumer lock is about to
\* read and clear that same slot.
SlotNeverShared ==
    \A p, c \in Threads :
       (/\ enq_owner = p /\ pc[p] \in {"enq_check", "enq_store"}
        /\ deq_owner = c /\ pc[c] = "deq_take")
       => enq_idx # deq_idx

\* C13: the internal assertions never fail.  Every deq that takes from the
\* slot at the read cursor finds it Occupied, and every enq that stores into
\* the slot at the write cursor finds it Empty.
AssertionsHold ==
    [][\A t \in Threads :
          /\ (pc[t] = "deq_take" /\ pc'[t] # "deq_take") => IsSome(data[deq_idx])
          /\ (pc[t] = "enq_store" /\ pc'[t] # "enq_store") => ~IsSome(data[enq_idx])]_vars

\* The slots holding Some(_).
Occupied == {i \in 0..(capacity - 1) : IsSome(data[i])}

\* C14: in every reachable state the occupancy counter equals the number of
\* Occupied slots.
CounterEqualsOccupied == size = Cardinality(Occupied)

\* The steps at which a thread is inside the critical section of enq (from
\* enq_lock taken to its drop) or of deq (from deq_lock taken to return).
Critical == {"enq_check", "enq_store", "enq_inc", "deq_loop", "deq_take", "deq_dec"}

\* The slots read from the read cursor on, n of them, wrapping at capacity.
RingRun(n) == [k \in 1..n |-> data[(deq_idx + k - 1) % capacity]]

\* C15: whenever no enq or deq is inside its critical section, the Occupied
\* slots are exactly the run from the read cursor up to the write cursor
\* (modulo capacity), and read in that order they hold the values stored by
\* enq and not yet taken by deq, oldest first; both cursors are always in
\* [0, capacity).
RingHoldsPending ==
    /\ enq_idx \in 0..(capacity - 1)
    /\ deq_idx \in 0..(capacity - 1)
    /\ (\A t \in Threads : pc[t] \notin Critical)
          => /\ Occupied = {(deq_idx + k - 1) % capacity : k \in 1..Cardinality(Occupied)}
             /\ (deq_idx + Cardinality(Occupied)) % capacity = enq_idx
             /\ RingRun(Cardinality(Occupied)) = model

\* C16: a successful enq broadcasts on the condition exactly when the counter
\* read 0 just before its increment.  The increment step goes on to the
\* broadcast if the counter was 0 and straight to the return otherwise; an
\* enq reaches its return only from such an increment or from its broadcast;
\* the broadcast is made with the producer lock dropped and the consumer
\* lock held, and leaves no consumer suspended; and an enq takes the consumer
\* lock only on its way to the broadcast, so never when it returned Full or
\* incremented a non-zero counter.
BroadcastIffWasEmpty ==
    /\ [][\A t \in Threads :
             /\ (pc[t] = "enq_inc" /\ pc'[t] # "enq_inc")
                   => /\ pc'[t] = (IF size = 0 THEN "enq_wake_lock" ELSE "enq_ret")
                      /\ must_wake'[t] = (size = 0)
                      /\ enq_owner' = Free
             /\ (pc[t] # "enq_ret" /\ pc'[t] = "enq_ret")
                   => \/ pc[t] = "enq_inc" /\ size # 0
                      \/ /\ pc[t] = "enq_notify"
                         /\ must_wake[t]
                         /\ enq_owner # t
                         /\ deq_owner = t
                         /\ \A u \in Threads : pc'[u] # "deq_wait"
             /\ (pc[t] \in InEnq /\ deq_owner # t /\ deq_owner' = t)
                   => pc[t] = "enq_wake_lock" /\ must_wake[t]
             /\ (pc[t] = "enq_check" /\ pc'[t] = "idle") => deq_owner' # t]_vars
    /\ [](\A t \in Threads :
             /\ pc[t] \in {"enq_wake_lock", "enq_notify"} => must_wake[t]
             /\ (pc[t] \in InEnq /\ deq_owner = t) => pc[t] = "enq_notify")

\* C16 witness: an enq that raised the counter from 0 has made its broadcast
\* and is about to return Ok; the consumers that were suspended are awake,
\* two of them, and none is left waiting.
BroadcastWokeAll ==
    \E t \in Threads :
       /\ pc[t] = "enq_ret"
       /\ must_wake[t]
       /\ Cardinality({u \in Threads : pc[u] = "deq_relock"}) = 2
       /\ \A u \in Threads : pc[u] # "deq_wait"

\* C17: a woken consumer reads the counter again under the consumer lock and
\* suspends again while it reads 0.  A consumer that wakes goes to the loop
\* test with the lock held; the loop test on a counter of 0 suspends and
\* leaves slot, read cursor and counter alone; a deq is at its slot access
\* or its decrement only with the consumer lock held and a counter of at
\* least 1; and every value a deq takes is matched by a value some enq
\* stored before and no deq took, so the consumers woken by one broadcast
\* never return more values than were enqueued.
WokenConsumerRechecks ==
    /\ [][\A t \in Threads :
             /\ (pc[t] = "deq_relock" /\ pc'[t] # "deq_relock")
                   => \/ pc'[t] = "deq_loop" /\ deq_owner' = t
                      \/ pc'[t] = "deq_panicked" /\ deq_poisoned
             /\ (pc[t] = "deq_loop" /\ pc'[t] # "deq_loop" /\ size = 0)
                   => /\ pc'[t] = "deq_wait"
                      /\ data' = data /\ deq_idx' = deq_idx /\ size' = size
             /\ (pc[t] = "deq_take" /\ pc'[t] = "deq_dec") => model # <<>>
             /\ (pc[t] = "deq_dec" /\ pc'[t] # "deq_dec") => size' >= 0]_vars
    /\ [](\A t \in Threads :
             pc[t] \in {"deq_take", "deq_dec"} => deq_owner = t /\ size >= 1)

\* C17 witness: a deq issued on an empty queue was suspended, an enq then
\* made a value available and another deq returned it; this consumer holds
\* the consumer lock again and is at the loop test with the counter at 0.
WokenFindsNothing ==
    \E t \in Threads :
       /\ pc[t] = "deq_loop"
       /\ empty_call[t] = "served"
       /\ size = 0
       /\ Len(Collected) >= 1

\* C18: the k-th deq to pass through the consumer critical section returns
\* the value stored by the k-th enq that stored one, for every k: each deq
\* takes the oldest value that was stored and not yet taken.
FifoByCriticalSection ==
    [][\A t \in Threads :
          (pc[t] = "deq_take" /\ pc'[t] = "deq_dec")
             => model # <<>> /\ elem'[t] = Head(model)]_vars

\* C19: enq returns Full only when every slot of the ring is Occupied at the
\* moment it inspects the slot at the write cursor.
FullOnlyWhenAllOccupied ==
    [][\A t \in Threads :
          (pc[t] = "enq_check" /\ pc'[t] = "idle") => AllOccupied]_vars

\* C20: the counter and the number of Occupied slots differ by at most one
\* in every state, the counter never exceeds capacity + 1, and the decrement
\* is never applied to a counter of 0.
CounterWithinOne ==
    /\ size - Cardinality(Occupied) \in -1..1
    /\ size <= capacity + 1
    /\ \A t \in Threads : pc[t] = "deq_dec" => size >= 1

====
